---- MODULE Spec2Model ----
(***************************************************************************)
(* State-machine model of app.py: a Flask CRUD application over one SQLite *)
(* table `records`.  Each application context (a request, or the init-db   *)
(* command) runs one handler; handlers of different contexts interleave at *)
(* the granularity of committed SQL statements.                            *)
(***************************************************************************)
EXTENDS Integers, Sequences, FiniteSets, TLC

\* ------------------------------------------------------------ bounds
NumCtx == 2       \* application contexts alive at the same time
MaxRows == 2      \* INSERTs performed in one behaviour
MaxClock == 1     \* seconds the wall clock advances

\* ------------------------------------------------------------ program constants
TitleMin == 1
TitleMax == 140
ContentMax == 2000

Ctx == 1..NumCtx
Ids == 1..MaxRows

\* ------------------------------------------------------------ strings
\* A string is kept run-length encoded: a sequence of runs [c, n] (n >= 1
\* copies of character c, adjacent runs of different characters).
Rep(c, n) == IF n = 0 THEN <<>> ELSE << [c |-> c, n |-> n] >>

RECURSIVE len(_)
len(s) == IF s = <<>> THEN 0 ELSE Head(s).n + len(Tail(s))

IsSpace(c) == c \in {" ", "\t", "\n"}

RECURSIVE lstrip(_)
lstrip(s) == IF s = <<>> THEN <<>>
             ELSE IF IsSpace(Head(s).c) THEN lstrip(Tail(s)) ELSE s

RECURSIVE rstrip(_)
rstrip(s) == IF s = <<>> THEN <<>>
             ELSE IF IsSpace(s[Len(s)].c) THEN rstrip(SubSeq(s, 1, Len(s) - 1)) ELSE s

strip(s) == rstrip(lstrip(s))

\* ------------------------------------------------------------ submitted forms
Form(title, content, csrf) == [title |-> title, content |-> content, csrf |-> csrf]
Forms == { Form(Rep("a", TitleMin), Rep("c", 0), TRUE),
           Form(Rep("a", TitleMax), Rep("c", ContentMax), TRUE),
           Form(Rep("a", 0), Rep("c", 0), TRUE),
           Form(Rep("a", TitleMax + 1), Rep("c", 0), TRUE),
           Form(Rep("a", TitleMin), Rep("c", ContentMax + 1), TRUE),
           Form(Rep("a", 0), Rep("c", ContentMax + 1), TRUE),
           Form(Rep(" ", TitleMax), Rep("c", ContentMax), TRUE),
           Form(Rep("a", TitleMax), Rep("c", ContentMax), FALSE) }

\* wtforms.validators.DataRequired: the data is truthy and, for a string,
\* not only whitespace.
DataRequired(data) == data # <<>> /\ strip(data) # <<>>

\* wtforms.validators.Length(min, max): -1 means no limit.
\* (variant: the upper limit taken as exclusive)
Length_exclusive(data, min, max) == len(data) >= min /\ (max = -1 \/ len(data) < max)
Length(data, min, max) == len(data) >= min /\ (max = -1 \/ len(data) <= max)

\* RecordForm.validate(): every field is validated; DataRequired stops the
\* title's chain when it fails.
RecordForm_errors(f) ==
    (IF ~DataRequired(f.title) THEN {"title: This field is required."}
     ELSE IF ~Length(f.title, TitleMin, TitleMax)
          THEN {"title: Field must be between 1 and 140 characters long."}
          ELSE {})
    \cup (IF ~Length(f.content, -1, ContentMax)
          THEN {"content: Field cannot be longer than 2000 characters."} ELSE {})
    \cup (IF ~f.csrf THEN {"csrf_token: The CSRF token is invalid."} ELSE {})

is_submitted(method) == method = "POST"
\* (variant: submitted forms are not validated)
validate_on_submit_unvalidated(method, f) == is_submitted(method)
validate_on_submit(method, f) == is_submitted(method) /\ RecordForm_errors(f) = {}

\* ------------------------------------------------------------ state
VARIABLES
    store,      \* rows of table records: [id, title, content, created_at]
    seq,        \* sqlite_sequence entry of records (AUTOINCREMENT high-water mark)
    now,        \* wall clock, in whole seconds (CURRENT_TIMESTAMP resolution)
    pc,         \* per context: "start", "edit_read", "responded", "failed", "done"
    req,        \* per context: the request being handled [kind, method, id]
    record,     \* per context: edit_record's local `record` (set of at most one row)
    resp,       \* per context: what the handler returned
    gdb,        \* per context: 'db' in g
    opened,     \* per context: sqlite3.connect calls that returned a connection
    closed,     \* per context: close() calls on a connection of the context
    assigned    \* history: every id an INSERT has ever assigned

vars == <<store, seq, now, pc, req, record, resp, gdb, opened, closed, assigned>>
dbvars == <<store, seq, assigned>>

NoReq == [kind |-> "none", method |-> "none", id |-> 0]
NoResp == [status |-> "none", target |-> "none", arg |-> 0, flash |-> "none",
           errors |-> {}, data |-> <<>>]

render_template(template, errors, data) ==
    [status |-> "render", target |-> template, arg |-> 0, flash |-> "none",
     errors |-> errors, data |-> data]
redirect(endpoint, id, flash) ==
    [status |-> "redirect", target |-> endpoint, arg |-> id, flash |-> flash,
     errors |-> {}, data |-> <<>>]
ServerError == [status |-> "error", target |-> "500", arg |-> 0, flash |-> "none",
                errors |-> {}, data |-> <<>>]

\* ------------------------------------------------------------ SQL statements
IdsOf(s) == { row.id : row \in s }
MaxOf(S) == IF S = {} THEN 0 ELSE CHOOSE m \in S : \A x \in S : x <= m

\* id INTEGER PRIMARY KEY AUTOINCREMENT: one more than the largest id the
\* table has ever held (sqlite_sequence), not merely the largest present.
\* (variant: a plain rowid, without AUTOINCREMENT)
NextId_rowid(s, sq) == MaxOf(IdsOf(s)) + 1
NextId(s, sq) == MaxOf(IdsOf(s) \cup {sq}) + 1

\* INSERT INTO records (title, content) VALUES (?, ?); created_at takes its
\* DEFAULT CURRENT_TIMESTAMP.
\* (variant: the two parameters bound in the wrong order)
Insert_swapped(s, sq, title, content, t) ==
    s \cup { [id |-> NextId(s, sq), title |-> content, content |-> title, created_at |-> t] }
Insert(s, sq, title, content, t) ==
    s \cup { [id |-> NextId(s, sq), title |-> title, content |-> content, created_at |-> t] }

\* SELECT ... FROM records WHERE id = ?  (fetchone: a row or None)
SelectById(s, id) == { row \in s : row.id = id }

\* UPDATE records SET title = ?, content = ? WHERE id = ?
\* (variant: the WHERE clause missing)
Update_all(s, id, title, content) ==
    { [row EXCEPT !.title = title, !.content = content] : row \in s }
Update(s, id, title, content) ==
    { IF row.id = id THEN [row EXCEPT !.title = title, !.content = content] ELSE row
      : row \in s }

\* DELETE FROM records WHERE id = ?
Delete(s, id) == { row \in s : row.id # id }

\* SELECT ... FROM records ORDER BY created_at DESC: every row once, by
\* non-increasing created_at; the order of rows with equal created_at is not
\* determined by the statement.
SelectAllOrdered(s) ==
    { l \in [1..Cardinality(s) -> s] :
        /\ \A i, j \in 1..Cardinality(s) : i # j => l[i] # l[j]
        /\ \A i, j \in 1..Cardinality(s) : i < j => l[i].created_at >= l[j].created_at }

\* ------------------------------------------------------------ connections
\* get_db(): the context's connection, opened on first use and kept in g.
get_db(r) ==
    /\ gdb' = [gdb EXCEPT ![r] = TRUE]
    /\ opened' = [opened EXCEPT ![r] = IF gdb[r] THEN @ ELSE @ + 1]

\* close_db(error): g.pop('db', None), closed when there was one.
\* (variant: the connection is closed only when the request raised nothing)
close_db_unless_error(r) ==
    IF pc[r] = "failed" THEN UNCHANGED <<gdb, closed>>
    ELSE /\ gdb' = [gdb EXCEPT ![r] = FALSE]
         /\ closed' = [closed EXCEPT ![r] = IF gdb[r] THEN @ + 1 ELSE @]
close_db(r) ==
    /\ gdb' = [gdb EXCEPT ![r] = FALSE]
    /\ closed' = [closed EXCEPT ![r] = IF gdb[r] THEN @ + 1 ELSE @]

Return(r, rq, rs) ==
    /\ pc' = [pc EXCEPT ![r] = "responded"]
    /\ req' = [req EXCEPT ![r] = rq]
    /\ resp' = [resp EXCEPT ![r] = rs]

Request(kind, method, id) == [kind |-> kind, method |-> method, id |-> id]

\* ------------------------------------------------------------ handlers
Init ==
    /\ store = {}
    /\ seq = 0
    /\ now = 0
    /\ pc = [r \in Ctx |-> "start"]
    /\ req = [r \in Ctx |-> NoReq]
    /\ record = [r \in Ctx |-> {}]
    /\ resp = [r \in Ctx |-> NoResp]
    /\ gdb = [r \in Ctx |-> FALSE]
    /\ opened = [r \in Ctx |-> 0]
    /\ closed = [r \in Ctx |-> 0]
    /\ assigned = {}

\* flask init-db: CREATE TABLE IF NOT EXISTS on the existing table.
init_db_command(r) ==
    /\ pc[r] = "start"
    /\ get_db(r)
    /\ Return(r, Request("init_db_command", "CLI", 0),
              [NoResp EXCEPT !.status = "printed", !.target = "Database initialized."])
    /\ UNCHANGED <<dbvars, now, record, closed>>

list_records(r) ==
    /\ pc[r] = "start"
    /\ get_db(r)
    /\ \E records \in SelectAllOrdered(store) :
         Return(r, Request("list_records", "GET", 0),
                render_template("records_list.html", {}, records))
    /\ UNCHANGED <<dbvars, now, record, closed>>

\* create_record handling a request with this method and this form data.
create_record_with(r, method, form) ==
    /\ pc[r] = "start"
    /\   IF validate_on_submit(method, form)
         THEN /\ seq < MaxRows            \* bound on the number of INSERTs
              /\ get_db(r)
              /\ store' = Insert(store, seq, form.title, form.content, now)
              /\ seq' = NextId(store, seq)
              /\ assigned' = assigned \cup {NextId(store, seq)}
              /\ Return(r, Request("create_record", method, 0),
                        redirect("list_records", 0, "Record created successfully!"))
         ELSE /\ UNCHANGED <<gdb, opened, dbvars>>
              /\ Return(r, Request("create_record", method, 0),
                        IF is_submitted(method)
                        THEN render_template("form.html", RecordForm_errors(form),
                                 << [title |-> form.title, content |-> form.content] >>)
                        ELSE render_template("form.html", {}, <<>>))
    /\ UNCHANGED <<now, record, closed>>

create_record(r) ==
    \E method \in {"GET", "POST"}, form \in Forms : create_record_with(r, method, form)

\* (variant: view_record without its `record is None` check)
view_record_unchecked(r) ==
    /\ pc[r] = "start"
    /\ get_db(r)
    /\ \E id \in Ids :
         Return(r, Request("view_record", "GET", id),
                render_template("record_detail.html", {},
                    IF SelectById(store, id) = {} THEN <<>>
                    ELSE << CHOOSE row \in SelectById(store, id) : TRUE >>))
    /\ UNCHANGED <<dbvars, now, record, closed>>
view_record(r) ==
    /\ pc[r] = "start"
    /\ get_db(r)
    /\ \E id \in Ids :
         LET found == SelectById(store, id) IN
         IF found = {}
         THEN Return(r, Request("view_record", "GET", id),
                     redirect("list_records", 0, "Record not found."))
         ELSE Return(r, Request("view_record", "GET", id),
                     render_template("record_detail.html", {},
                                     << CHOOSE row \in found : TRUE >>))
    /\ UNCHANGED <<dbvars, now, record, closed>>

\* edit_record, up to and including the not-found return: the SELECT.
edit_record_select(r) ==
    /\ pc[r] = "start"
    /\ get_db(r)
    /\ \E id \in Ids, method \in {"GET", "POST"} :
         LET found == SelectById(store, id) IN
         /\ record' = [record EXCEPT ![r] = found]
         /\ IF found = {}
            THEN Return(r, Request("edit_record", method, id),
                        redirect("list_records", 0, "Record not found."))
            ELSE /\ pc' = [pc EXCEPT ![r] = "edit_read"]
                 /\ req' = [req EXCEPT ![r] = Request("edit_record", method, id)]
                 /\ UNCHANGED resp
    /\ UNCHANGED <<dbvars, now, closed>>

\* edit_record, from form = RecordForm() on: validation, the UPDATE, the response.
edit_record_with(r, form) ==
    /\ pc[r] = "edit_read"
    /\   IF validate_on_submit(req[r].method, form)
         THEN /\ store' = Update(store, req[r].id, form.title, form.content)
              /\ Return(r, req[r],
                        redirect("view_record", req[r].id, "Record updated successfully!"))
         ELSE /\ UNCHANGED store
              /\ Return(r, req[r],
                    IF is_submitted(req[r].method)
                    THEN render_template("form.html", RecordForm_errors(form),
                             << [title |-> form.title, content |-> form.content] >>)
                    ELSE render_template("form.html", {},
                            << [title |-> (CHOOSE row \in record[r] : TRUE).title,
                                content |-> (CHOOSE row \in record[r] : TRUE).content] >>))
    /\ UNCHANGED <<seq, assigned, now, record, gdb, opened, closed>>

edit_record_submit(r) == \E form \in Forms : edit_record_with(r, form)

\* (variant: delete_record reporting not-found when no row matched)
delete_record_checked(r) ==
    /\ pc[r] = "start"
    /\ get_db(r)
    /\ \E id \in Ids, method \in {"GET", "POST"} :
         /\ store' = Delete(store, id)
         /\ Return(r, Request("delete_record", method, id),
                   IF id \in IdsOf(store)
                   THEN redirect("list_records", 0, "Record deleted successfully!")
                   ELSE redirect("list_records", 0, "Record not found."))
    /\ UNCHANGED <<seq, assigned, now, record, closed>>
delete_record(r) ==
    /\ pc[r] = "start"
    /\ get_db(r)
    /\ \E id \in Ids, method \in {"GET", "POST"} :
         /\ store' = Delete(store, id)
         /\ Return(r, Request("delete_record", method, id),
                   redirect("list_records", 0, "Record deleted successfully!"))
    /\ UNCHANGED <<seq, assigned, now, record, closed>>

index(r) ==
    /\ pc[r] = "start"
    /\ Return(r, Request("index", "GET", 0), render_template("index.html", {}, <<>>))
    /\ UNCHANGED <<dbvars, now, record, gdb, opened, closed>>

about(r) ==
    /\ pc[r] = "start"
    /\ Return(r, Request("about", "GET", 0), render_template("about.html", {}, <<>>))
    /\ UNCHANGED <<dbvars, now, record, gdb, opened, closed>>

\* ------------------------------------------------------------ storage failures
\* The handlers that reach the database: all but the static pages.
DbHandlers == {"init_db_command", "list_records", "create_record", "view_record",
               "edit_record", "delete_record"}

\* sqlite3.connect raises in get_db: nothing is stored in g.
connect_raises(r) ==
    /\ pc[r] = "start"
    /\ \E k \in DbHandlers : req' = [req EXCEPT ![r] = Request(k, "none", 0)]
    /\ pc' = [pc EXCEPT ![r] = "failed"]
    /\ resp' = [resp EXCEPT ![r] = ServerError]
    /\ UNCHANGED <<dbvars, now, record, gdb, opened, closed>>

\* db.execute or db.commit raises after get_db returned: the statement's
\* transaction is not committed.
execute_raises(r) ==
    /\ \/ /\ pc[r] = "start"
          /\ get_db(r)
          /\ \E k \in DbHandlers : req' = [req EXCEPT ![r] = Request(k, "none", 0)]
       \/ /\ pc[r] = "edit_read"
          /\ is_submitted(req[r].method)
          /\ UNCHANGED <<gdb, opened, req>>
    /\ pc' = [pc EXCEPT ![r] = "failed"]
    /\ resp' = [resp EXCEPT ![r] = ServerError]
    /\ UNCHANGED <<dbvars, now, record, closed>>

\* ------------------------------------------------------------ context life
\* The response has been sent (or the exception has propagated) and the
\* application context is popped: teardown_appcontext runs close_db.  Of the
\* request only the kind of outcome is remembered.
teardown(r) ==
    /\ pc[r] \in {"responded", "failed"}
    /\ close_db(r)
    /\ pc' = [pc EXCEPT ![r] = "done"]
    /\ req' = [req EXCEPT ![r] = NoReq]
    /\ record' = [record EXCEPT ![r] = {}]
    /\ resp' = [resp EXCEPT ![r] = [NoResp EXCEPT !.status = resp[r].status]]
    /\ UNCHANGED <<dbvars, now, opened>>

\* The next request is served in a fresh application context (an empty g).
new_context(r) ==
    /\ pc[r] = "done"
    /\ pc' = [pc EXCEPT ![r] = "start"]
    /\ req' = [req EXCEPT ![r] = NoReq]
    /\ record' = [record EXCEPT ![r] = {}]
    /\ resp' = [resp EXCEPT ![r] = NoResp]
    /\ gdb' = [gdb EXCEPT ![r] = FALSE]
    /\ opened' = [opened EXCEPT ![r] = 0]
    /\ closed' = [closed EXCEPT ![r] = 0]
    /\ UNCHANGED <<dbvars, now>>

\* A second passes: CURRENT_TIMESTAMP changes.
tick ==
    /\ now < MaxClock
    /\ now' = now + 1
    /\ UNCHANGED <<dbvars, pc, req, record, resp, gdb, opened, closed>>

Next ==
    \/ \E r \in Ctx :
         \/ init_db_command(r)
         \/ list_records(r)
         \/ create_record(r)
         \/ view_record(r)
         \/ edit_record_select(r)
         \/ edit_record_submit(r)
         \/ delete_record(r)
         \/ index(r)
         \/ about(r)
         \/ connect_raises(r)
         \/ execute_raises(r)
         \/ teardown(r)
         \/ new_context(r)
    \/ tick

Spec == Init /\ [][Next]_vars

\* ------------------------------------------------------------ properties
\* Context r is in its handler and the handler returns in this step.
Returns(r, kind) == pc[r] = "start" /\ pc'[r] = "responded" /\ req'[r].kind = kind

NotFound == redirect("list_records", 0, "Record not found.")

\* C1: whatever the outcome of a request, it opens at most one connection,
\* never closes more connections than it opened, holds exactly the open one
\* in g, and once the request has completed every connection it opened has
\* been closed exactly once and none is left open.
C1_OneConnectionClosedOnce ==
    \A r \in Ctx :
        /\ opened[r] <= 1
        /\ closed[r] <= opened[r]
        /\ gdb[r] <=> (opened[r] - closed[r] = 1)
        /\ pc[r] = "done" => (closed[r] = opened[r] /\ ~gdb[r])

C1_Witness ==
    \E r \in Ctx : pc[r] = "done" /\ resp[r].status = "error"
                   /\ opened[r] = 1 /\ closed[r] = 1

\* C2: the id a create assigns was never assigned before, also when the
\* record that held it (even the highest id) has been deleted; ids are unique
\* and no step replaces the id of a stored record by another one.
C2_IdsNeverReusedNorMutated ==
    [][ /\ \A id \in IdsOf(store') \ IdsOf(store) : id \notin assigned
        /\ Cardinality(IdsOf(store') \ IdsOf(store)) <= 1
        /\ IdsOf(store') \ IdsOf(store) # {} => IdsOf(store) \subseteq IdsOf(store')
        /\ Cardinality(IdsOf(store')) = Cardinality(store')
        /\ assigned \subseteq assigned' ]_vars

C2_Witness ==
    /\ store # {}
    /\ assigned \ IdsOf(store) # {}
    /\ \A id \in assigned \ IdsOf(store) : \A row \in store : row.id > id

\* C3: with no deletes, list_records returns every stored record exactly once
\* and, of any two records, the one created later (the one with the larger
\* id) before the other.
C3_ListNewestFirst ==
    [][ \A r \in Ctx :
          Returns(r, "list_records") /\ IdsOf(store) = assigned =>
            LET records == resp'[r].data IN
            /\ Len(records) = Cardinality(assigned)
            /\ \A row \in store : \E i \in 1..Len(records) : records[i] = row
            /\ \A i, j \in 1..Len(records) : i < j => records[i].id > records[j].id ]_vars

\* C4: an edit of a stored record that validates rewrites that record's title
\* and content to the submitted values and nothing else: the record keeps its
\* id and created_at, all other records and the number of records are
\* unchanged, and a view of the id then finds the submitted title and content.
C4_EditFrame ==
    [][ \A r \in Ctx, form \in Forms :
          edit_record_with(r, form) /\ validate_on_submit(req[r].method, form) =>
            LET id == req[r].id IN
            /\ \A row \in store : row.id # id => row \in store'
            /\ \A row \in store' : row.id # id => row \in store
            /\ Cardinality(store') = Cardinality(store)
            /\ IdsOf(store') = IdsOf(store)
            /\ \A row \in store : row.id = id =>
                 /\ \E new \in store' : new.id = id /\ new.created_at = row.created_at
                 /\ \A new \in SelectById(store', id) :
                      new.title = form.title /\ new.content = form.content ]_vars

C4_Witness ==
    \E r \in Ctx :
        /\ pc[r] = "responded" /\ req[r].kind = "edit_record"
        /\ resp[r].flash = "Record updated successfully!"
        /\ \E row \in record[r], new \in store :
             /\ new.id = row.id /\ new.title # row.title /\ new.content # row.content
             /\ new.created_at = row.created_at /\ new.created_at < now
        /\ Cardinality(store) = 2

Violates(form) ==
    len(form.title) = 0 \/ len(form.title) > TitleMax \/ len(form.content) > ContentMax
AtLimits(form) == len(form.title) = TitleMax /\ len(form.content) = ContentMax
FormWithErrors(rs) == rs.status = "render" /\ rs.target = "form.html" /\ rs.errors # {}

\* edit_record returns at its not-found check while handling a POST.
EditPostNotFound(r) == Returns(r, "edit_record") /\ req'[r].method = "POST"
EditPost(r, form) == edit_record_with(r, form) /\ req[r].method = "POST"

\* C6 as stated: every create or edit submission whose title is empty or
\* longer than 140, or whose content is longer than 2000, writes nothing and
\* gets the form back with errors, not a redirect; every submission with a
\* title of exactly 140 and a content of exactly 2000 characters is accepted
\* and written.
C6_AsStated ==
    [][ \A r \in Ctx, form \in Forms :
          create_record_with(r, "POST", form) \/ EditPost(r, form) \/ EditPostNotFound(r) =>
            /\ Violates(form) => store' = store /\ FormWithErrors(resp'[r])
            /\ AtLimits(form) =>
                 /\ resp'[r].status = "redirect"
                 /\ resp'[r].flash \in {"Record created successfully!",
                                        "Record updated successfully!"}
                 /\ \E row \in store' :
                      row.title = form.title /\ row.content = form.content ]_vars

\* C6 amended: a create submission, or an edit submission for a record the
\* handler found, that violates a constraint writes nothing and gets the form
\* back with errors; an edit submission for an id without a record writes
\* nothing and is redirected with the not-found notification.  A submission
\* exactly at the limits whose title is not only whitespace and whose CSRF
\* token is valid is accepted: create inserts a record with the submitted
\* values, edit of a found record issues the UPDATE (which rewrites the record
\* when it is still stored) and reports success.
C6_Amended ==
    [][ \A r \in Ctx, form \in Forms :
          /\ create_record_with(r, "POST", form) =>
               /\ Violates(form) => store' = store /\ FormWithErrors(resp'[r])
               /\ AtLimits(form) /\ form.csrf /\ strip(form.title) # <<>> =>
                    /\ resp'[r] = redirect("list_records", 0, "Record created successfully!")
                    /\ \E row \in store' \ store :
                         row.title = form.title /\ row.content = form.content
          /\ EditPost(r, form) =>
               /\ Violates(form) => store' = store /\ FormWithErrors(resp'[r])
               /\ AtLimits(form) /\ form.csrf /\ strip(form.title) # <<>> =>
                    /\ resp'[r] = redirect("view_record", req[r].id,
                                           "Record updated successfully!")
                    /\ req[r].id \in IdsOf(store) =>
                         \E row \in store' : /\ row.id = req[r].id
                                             /\ row.title = form.title
                                             /\ row.content = form.content
          /\ EditPostNotFound(r) => store' = store /\ resp'[r] = NotFound ]_vars

C6_Witness ==
    \E r1, r2 \in Ctx :
        /\ pc[r1] = "responded" /\ req[r1].kind = "edit_record"
        /\ resp[r1].flash = "Record updated successfully!"
        /\ \E row \in store : /\ row.id = req[r1].id
                              /\ len(row.title) = TitleMax /\ len(row.content) = ContentMax
        /\ pc[r2] = "responded" /\ req[r2].kind = "create_record"
        /\ resp[r2].errors = {"title: Field must be between 1 and 140 characters long."}

\* C7: a create with a valid title and content that succeeds adds exactly one
\* record, under an id no stored record holds and none ever held, leaves the
\* records present before as they were, and a view of the new id finds
\* exactly the submitted title and content.
C7_CreateThenView ==
    [][ \A r \in Ctx, form \in Forms :
          /\ create_record_with(r, "POST", form)
          /\ 1 <= len(form.title) /\ len(form.title) <= TitleMax
          /\ len(form.content) <= ContentMax
          /\ resp'[r].flash = "Record created successfully!"
          => /\ store \subseteq store'
             /\ Cardinality(store') = Cardinality(store) + 1
             /\ \A new \in store' \ store :
                  /\ new.id \notin IdsOf(store) /\ new.id \notin assigned
                  /\ SelectById(store', new.id) = {new}
                  /\ new.title = form.title /\ new.content = form.content ]_vars

C7_Witness ==
    \E r \in Ctx :
        /\ pc[r] = "responded" /\ req[r].kind = "create_record"
        /\ resp[r].flash = "Record created successfully!"
        /\ Cardinality(store) = 2
        /\ \E row \in store : row.id = seq /\ len(row.title) = TitleMax

\* C8: view_record and edit_record for an id without a record return the
\* redirect to the list with the not-found notification and leave the store
\* as it is; edit_record goes on to its form (and so to the UPDATE and its
\* success notification) only with the record it found.
C8_NotFoundRedirect ==
    [][ \A r \in Ctx :
          /\ ( /\ pc[r] = "start" /\ pc'[r] \in {"responded", "edit_read"}
               /\ req'[r].kind \in {"view_record", "edit_record"}
               /\ req'[r].id \notin IdsOf(store) )
             => pc'[r] = "responded" /\ resp'[r] = NotFound /\ store' = store
          /\ pc'[r] = "edit_read" => record'[r] # {} ]_vars

C8_Witness ==
    \E r \in Ctx :
        /\ pc[r] = "responded" /\ req[r].kind = "edit_record" /\ req[r].method = "POST"
        /\ resp[r] = NotFound
        /\ req[r].id \in assigned

\* C9: every stored record has a title of 1 to 140 characters and a content
\* of at most 2000 characters.
C9_StoredRecordsValid ==
    \A row \in store :
        /\ 1 <= len(row.title) /\ len(row.title) <= TitleMax
        /\ len(row.content) <= ContentMax

C9_Witness ==
    \E row1, row2 \in store :
        /\ len(row1.title) = TitleMax /\ len(row1.content) = ContentMax
        /\ len(row2.title) = TitleMin /\ len(row2.content) = 0

\* C10: an edit that ends with 'Record updated successfully!' has rewritten
\* the record: when it commits, a record with the id is stored and holds the
\* submitted title and content.
C10_UpdatedMeansWritten ==
    [][ \A r \in Ctx, form \in Forms :
          edit_record_with(r, form) /\ resp'[r].flash = "Record updated successfully!" =>
            \E row \in store' : /\ row.id = req[r].id
                                /\ row.title = form.title
                                /\ row.content = form.content ]_vars

====
